---- MODULE Spec2Model ----
(***************************************************************************)
(* File navigator (src/index.ts): per-file navigator state, the streaming  *)
(* line reader, the window fetcher, the search engine and the screen       *)
(* formatter, and the CallToolRequestSchema handler with one action per    *)
(* stretch of code that a tool call runs between two of its awaits.        *)
(*                                                                         *)
(* Text is a sequence of one-character strings.  A file's content is its   *)
(* raw text, newlines included.                                            *)
(*                                                                         *)
(* Specifications: Spec (small files, one client whose calls do not        *)
(* overlap), SpecCap (a file longer than the match cap), SpecEnv (empty    *)
(* filename, negative screen_height, a file system that changes between    *)
(* and during the calls), SpecTwo (two files), SpecRead (one readFileLines *)
(* pass over any division into chunks), SpecLines (one getLines call, line *)
(* by line) and SpecAsync (two clients whose calls interleave at their     *)
(* awaits).                                                                *)
(***************************************************************************)
EXTENDS Integers, Sequences, FiniteSets, TLC

VARIABLES
  fs,               \* the file system: path -> raw content of the file
  fault,            \* the file system: path -> what goes wrong when the file is read
  navigatorStates,  \* the Map<string, FileNavigatorState>
  response,         \* what the last tool call returned (or threw)
  passes,           \* the read passes (readFileLines) the last tool call made
  last,             \* the last tool call: name and arguments
  landed,           \* history: the find that landed, and the next_match run after it
  steps,            \* history: number of tool calls (bounded specifications only)
  calls,            \* the tool calls: position and local variables of each
  reader            \* one read pass on its own (SpecRead and SpecLines only)

vars == <<fs, fault, navigatorStates, response, passes, last, landed, steps,
         calls, reader>>

---------------------------------------------------------------------------
(* Bounds of the model *)

MaxLines == 3        \* lines per generated file
BigLines == 1002     \* lines of the large file of SpecCap
MaxCapSteps == 2     \* tool calls per behaviour of SpecCap
MaxEnvSteps == 3     \* tool calls and file system events per behaviour of SpecEnv
MaxChars == 4        \* characters of the content read in SpecRead

(* Program constants *)

DEFAULT_SCREEN_HEIGHT == 30
MAX_SEARCH_RESULTS == 1000

---------------------------------------------------------------------------
(* JavaScript primitives used by the code *)

Max(a, b) == IF a >= b THEN a ELSE b

Min(a, b) == IF a <= b THEN a ELSE b

\* n.toString().length
RECURSIVE Digits(_)
Digits(n) ==
  IF n < 0 THEN 1 + Digits(0 - n)
  ELSE IF n < 10 THEN 1
  ELSE 1 + Digits(n \div 10)

\* The loops of the code (for, for await) are folds over the indices lo..hi
\* that carry a record st and stop at the first iteration that sets st.brk
\* (break).  The range is halved so that the evaluation depth is
\* logarithmic; the iterations run in index order, each on the state left by
\* the one before.

\* buffer.split('\n'): the segments between newlines, always at least one
SplitStep(st, c) ==
  IF c = "\n"
  THEN [cur |-> <<>>, acc |-> Append(st.acc, st.cur), brk |-> FALSE]
  ELSE [cur |-> Append(st.cur, c), acc |-> st.acc, brk |-> FALSE]

RECURSIVE SplitLoop(_, _, _, _)
SplitLoop(s, lo, hi, st) ==
  IF st.brk \/ lo > hi THEN st
  ELSE IF lo = hi THEN SplitStep(st, s[lo])
  ELSE LET mid == (lo + hi) \div 2
           left == SplitLoop(s, lo, mid, st)
       IN IF left.brk THEN left ELSE SplitLoop(s, mid + 1, hi, left)

Split(s) ==
  LET r == SplitLoop(s, 1, Len(s), [cur |-> <<>>, acc |-> <<>>, brk |-> FALSE])
  IN Append(r.acc, r.cur)

---------------------------------------------------------------------------
(* readFileLines, getTotalLines, getLines *)

\* ChunkStep that starts each chunk with an empty buffer
ChunkStep_NoCarry(st, chunk) ==
  LET buffer == chunk
      lines == Split(buffer)
  IN [buffer |-> lines[Len(lines)],
      out |-> st.out \o SubSeq(lines, 1, Len(lines) - 1),
      brk |-> FALSE]

\* one iteration of `for await (const chunk of stream)`
ChunkStep(st, chunk) ==
  LET buffer == st.buffer \o chunk
      lines == Split(buffer)
  IN [buffer |-> lines[Len(lines)],
      out |-> st.out \o SubSeq(lines, 1, Len(lines) - 1),
      brk |-> FALSE]

RECURSIVE ChunkLoop(_, _, _, _)
ChunkLoop(chunks, lo, hi, st) ==
  IF st.brk \/ lo > hi THEN st
  ELSE IF lo = hi THEN ChunkStep(st, chunks[lo])
  ELSE LET mid == (lo + hi) \div 2
           left == ChunkLoop(chunks, lo, mid, st)
       IN IF left.brk THEN left ELSE ChunkLoop(chunks, mid + 1, hi, left)

\* `if (buffer) yield buffer` after the last chunk
ReadFlush(st) == IF st.buffer # <<>> THEN Append(st.out, st.buffer) ELSE st.out

\* the lines readFileLines yields when the stream delivers these chunks
ReadFileChunks(chunks) ==
  ReadFlush(ChunkLoop(chunks, 1, Len(chunks),
                      [buffer |-> <<>>, out |-> <<>>, brk |-> FALSE]))

\* a file is delivered in one chunk; an empty file delivers none
ReadFileLines(content) ==
  ReadFileChunks(IF content = <<>> THEN <<>> ELSE <<content>>)

\* getTotalLines over the lines of one read pass
GetTotalLines(stream) == Len(stream)

\* GetLinesStep that never leaves the loop
GetLinesStep_NoBreak(st, line, startLine, count) ==
  LET lines == IF st.currentLine >= startLine /\ st.currentLine < startLine + count
               THEN Append(st.lines, [lineNumber |-> st.currentLine, content |-> line])
               ELSE st.lines
  IN [lines |-> lines, currentLine |-> st.currentLine + 1, brk |-> FALSE]

\* one iteration of getLines' `for await`
GetLinesStep(st, line, startLine, count) ==
  LET lines == IF st.currentLine >= startLine /\ st.currentLine < startLine + count
               THEN Append(st.lines, [lineNumber |-> st.currentLine, content |-> line])
               ELSE st.lines
  IN IF st.currentLine >= startLine + count
     THEN [lines |-> lines, currentLine |-> st.currentLine, brk |-> TRUE]
     ELSE [lines |-> lines, currentLine |-> st.currentLine + 1, brk |-> FALSE]

RECURSIVE GetLinesLoop(_, _, _, _, _, _)
GetLinesLoop(stream, startLine, count, lo, hi, st) ==
  IF st.brk \/ lo > hi THEN st
  ELSE IF lo = hi THEN GetLinesStep(st, stream[lo], startLine, count)
  ELSE LET mid == (lo + hi) \div 2
           left == GetLinesLoop(stream, startLine, count, lo, mid, st)
       IN IF left.brk THEN left
          ELSE GetLinesLoop(stream, startLine, count, mid + 1, hi, left)

\* getLines over the lines of one read pass
GetLines(stream, startLine, count) ==
  GetLinesLoop(stream, startLine, count, 1, Len(stream),
               [lines |-> <<>>, currentLine |-> 1, brk |-> FALSE]).lines

\* getLines left its `for await` by the break
GetLinesBreaks(stream, startLine, count) ==
  GetLinesLoop(stream, startLine, count, 1, Len(stream),
               [lines |-> <<>>, currentLine |-> 1, brk |-> FALSE]).brk

\* fs.access(filename) resolves; the handler does not call it for an empty
\* filename
AccessOk(filename) == filename = "" \/ filename \in DOMAIN fs

\* what a read pass over the file meets: the error that ends it, or "none"
\* and the lines readFileLines yields
Source(filename) ==
  IF filename \notin DOMAIN fs THEN [error |-> "ENOENT", stream |-> <<>>]
  ELSE IF fault[filename] # "none" THEN [error |-> fault[filename], stream |-> <<>>]
  ELSE [error |-> "none", stream |-> ReadFileLines(fs[filename])]

\* One pass of readFileLines and the way it was left: "end" (read to the
\* end), "break" (the consumer left its loop), "open failed" (fs.open
\* rejected) or "read failed" (the stream raised an error).  `await
\* fileHandle.close()` is reached only at "end"; released says whether the
\* handle was closed when the pass was left.
ReadPass(exit, released) ==
  [exit |-> exit,
   opened |-> exit # "open failed",
   closeCalled |-> exit = "end",
   released |-> released]

\* the way the pass over a source is left, given whether the consumer breaks
PassOf(src, brk) ==
  IF src.error \in {"ENOENT", "EACCES"} THEN "open failed"
  ELSE IF src.error # "none" THEN "read failed"
  ELSE IF brk THEN "break"
  ELSE "end"

---------------------------------------------------------------------------
(* formatScreen: the text as its rows *)

Row(kind, num, width, content) ==
  [kind |-> kind, num |-> num, width |-> width, content |-> content]

\* length of n.toString().padStart(width, ' ')
PadStart(n, width) == Max(Digits(n), width)

FormatScreen(lines, totalLines) ==
  IF Len(lines) = 0
  THEN << Row("filler", 0, 1, <<>>), Row("empty file", 0, 0, <<>>) >>
  ELSE LET lastLineNumber == lines[Len(lines)].lineNumber
           maxLineNumWidth == Max(Digits(totalLines), Digits(lastLineNumber))
           formattedLines ==
             [i \in 1..Len(lines) |->
                Row("line", lines[i].lineNumber,
                    PadStart(lines[i].lineNumber, maxLineNumWidth),
                    lines[i].content)]
           fillers ==
             [i \in 1..Max(0, DEFAULT_SCREEN_HEIGHT - Len(lines)) |->
                Row("filler", 0, maxLineNumWidth + 1, <<>>)]
       IN IF lastLineNumber >= totalLines
          THEN formattedLines \o fillers \o << Row("END OF FILE", totalLines, 0, <<>>) >>
          ELSE formattedLines

---------------------------------------------------------------------------
(* The search pattern: new RegExp(..., 'gi') and RegExp.prototype.test *)

\* the 'i' flag: characters are compared by their canonical (upper) case
Canonicalize(c) ==
  IF c = "a" THEN "A" ELSE IF c = "b" THEN "B" ELSE c

Atom(any, ch) == [any |-> any, ch |-> ch]

\* literal mode: every metacharacter is escaped, so each character of the
\* pattern stands for itself
EscapeLiteral(pattern) ==
  [i \in 1..Len(pattern) |-> Atom(FALSE, pattern[i])]

\* regex mode over the characters the model draws patterns from: '.' is any
\* character of a line, '(' opens a group that is never closed (SyntaxError)
RegexValid_Lenient(pattern) == TRUE

RegexValid(pattern) == \A i \in 1..Len(pattern) : pattern[i] # "("

CompileRegex(pattern) ==
  [i \in 1..Len(pattern) |-> Atom(pattern[i] = ".", pattern[i])]

\* the pattern matches line at the 0-based index i
MatchAt(atoms, line, i) ==
  /\ i + Len(atoms) <= Len(line)
  /\ \A k \in 1..Len(atoms) :
       atoms[k].any \/ Canonicalize(line[i + k]) = Canonicalize(atoms[k].ch)

\* searchRegex.test(line) of a global regex whose lastIndex is lastIndex:
\* the search starts at lastIndex; a match moves lastIndex to its end, a
\* failure resets it to 0
RegExpTest(atoms, line, lastIndex) ==
  LET found == {i \in lastIndex..Len(line) : MatchAt(atoms, line, i)}
  IN IF lastIndex > Len(line) \/ found = {}
     THEN [matched |-> FALSE, lastIndex |-> 0]
     ELSE LET i == CHOOSE j \in found : \A k \in found : j <= k
          IN [matched |-> TRUE, lastIndex |-> i + Len(atoms)]

---------------------------------------------------------------------------
(* Navigator state *)

FreshState(filename) ==
  [currentFile |-> filename,
   currentLine |-> 1,
   screenHeight |-> DEFAULT_SCREEN_HEIGHT,
   searchPattern |-> <<>>,          \* null, or <<pattern>>
   searchMatches |-> <<>>,
   currentMatchIndex |-> -1]

\* the state getNavigatorState returns
GetNavigatorState(filename) ==
  IF filename \in DOMAIN navigatorStates
  THEN navigatorStates[filename]
  ELSE FreshState(filename)

\* Put with one state object shared by all the paths
Put_Shared(filename, state) ==
  [g \in DOMAIN navigatorStates \cup {filename} |-> state]

\* the table after getNavigatorState(filename) and the handler's writes to
\* the state object it returned
Put(filename, state) ==
  [g \in DOMAIN navigatorStates \cup {filename} |->
     IF g = filename THEN state ELSE navigatorStates[g]]

---------------------------------------------------------------------------
(* Responses and the record of the last call *)

Text(msg, k, n, arg) == [msg |-> msg, k |-> k, n |-> n, arg |-> arg]

NoText == Text("", 0, 0, <<>>)

Ok(text, screen) == [error |-> "none", text |-> text, screen |-> screen]

Failure(code, text) == [error |-> code, text |-> text, screen |-> <<>>]

Args(op, filename, line, screenHeight, pattern, isRegex) ==
  [op |-> op, filename |-> filename, line |-> line,
   screen_height |-> screenHeight, pattern |-> pattern, is_regex |-> isRegex]

NoLanded == [active |-> FALSE, filename |-> "", index |-> 0, line |-> 0, run |-> 0]

---------------------------------------------------------------------------
(* The cases of the CallToolRequestSchema handler, each run from its start *)
(* to its end on one navigator state and one unchanging file: the outcome  *)
(* of a call that nothing happens during.                                  *)

\* what the handler's code leaves: the file's navigator state, the response
\* (or the error thrown) and the way each read pass made was left
Result(state, resp, ps) == [state |-> state, response |-> resp, passes |-> ps]

\* the catch block: ENOENT becomes InvalidParams, anything else is rethrown
Thrown(filename, code) ==
  IF code = "ENOENT"
  THEN Failure("InvalidParams", Text("File not found", 0, 0, <<filename>>))
  ELSE Failure(code, NoText)

\* GoToLineTarget without the lower bound
GoToLineTarget_NoFloor(line, totalLines) == Min(line, totalLines)

\* "Handle out of bounds": the line go_to_line moves to
GoToLineTarget(line, totalLines) == Max(1, Min(line, totalLines))

\* case 'go_to_line' on the state getNavigatorState returned
GoToLineOn(state, filename, src, line, screenHeight) ==
  IF src.error # "none"
  THEN Result(state, Thrown(filename, src.error), <<PassOf(src, FALSE)>>)
  ELSE LET stream == src.stream
           totalLines == GetTotalLines(stream)
           height == IF screenHeight # <<>> /\ screenHeight[1] # 0
                     THEN screenHeight[1]
                     ELSE state.screenHeight
           currentLine == GoToLineTarget(line, totalLines)
           lines == GetLines(stream, currentLine, height)
       IN Result([state EXCEPT !.screenHeight = height,
                               !.currentLine = currentLine],
                 Ok(NoText, FormatScreen(lines, totalLines)),
                 <<PassOf(src, FALSE),
                   PassOf(src, GetLinesBreaks(stream, currentLine, height))>>)

\* FindStep, tracking only a match strictly after the cursor
FindStep_StrictlyAfter(st, line, atoms, currentLine) ==
  LET t == RegExpTest(atoms, line, st.lastIndex)
  IN IF t.matched
     THEN LET match == [line |-> st.lineNum, content |-> line]
              searchMatches == Append(st.searchMatches, match)
              track == st.firstMatchAfterCursor = <<>> /\ st.lineNum > currentLine
              full == Len(searchMatches) >= MAX_SEARCH_RESULTS
          IN [searchMatches |-> searchMatches,
              firstMatchAfterCursor |->
                IF track THEN <<match>> ELSE st.firstMatchAfterCursor,
              currentMatchIndex |->
                IF track THEN Len(searchMatches) - 1 ELSE st.currentMatchIndex,
              lineNum |-> IF full THEN st.lineNum ELSE st.lineNum + 1,
              lastIndex |-> t.lastIndex,
              brk |-> full]
     ELSE [st EXCEPT !.lineNum = @ + 1, !.lastIndex = t.lastIndex]

\* FindStep without the stop at MAX_SEARCH_RESULTS
FindStep_NoCap(st, line, atoms, currentLine) ==
  LET t == RegExpTest(atoms, line, st.lastIndex)
  IN IF t.matched
     THEN LET match == [line |-> st.lineNum, content |-> line]
              searchMatches == Append(st.searchMatches, match)
              track == st.firstMatchAfterCursor = <<>> /\ st.lineNum >= currentLine
              full == FALSE
          IN [searchMatches |-> searchMatches,
              firstMatchAfterCursor |->
                IF track THEN <<match>> ELSE st.firstMatchAfterCursor,
              currentMatchIndex |->
                IF track THEN Len(searchMatches) - 1 ELSE st.currentMatchIndex,
              lineNum |-> IF full THEN st.lineNum ELSE st.lineNum + 1,
              lastIndex |-> t.lastIndex,
              brk |-> full]
     ELSE [st EXCEPT !.lineNum = @ + 1, !.lastIndex = t.lastIndex]

\* one iteration of the search loop of find
FindStep(st, line, atoms, currentLine) ==
  LET t == RegExpTest(atoms, line, st.lastIndex)
  IN IF t.matched
     THEN LET match == [line |-> st.lineNum, content |-> line]
              searchMatches == Append(st.searchMatches, match)
              track == st.firstMatchAfterCursor = <<>> /\ st.lineNum >= currentLine
              full == Len(searchMatches) >= MAX_SEARCH_RESULTS
          IN [searchMatches |-> searchMatches,
              firstMatchAfterCursor |->
                IF track THEN <<match>> ELSE st.firstMatchAfterCursor,
              currentMatchIndex |->
                IF track THEN Len(searchMatches) - 1 ELSE st.currentMatchIndex,
              lineNum |-> IF full THEN st.lineNum ELSE st.lineNum + 1,
              lastIndex |-> t.lastIndex,
              brk |-> full]
     ELSE [st EXCEPT !.lineNum = @ + 1, !.lastIndex = t.lastIndex]

RECURSIVE FindRange(_, _, _, _, _, _)
FindRange(stream, atoms, currentLine, lo, hi, st) ==
  IF st.brk \/ lo > hi THEN st
  ELSE IF lo = hi THEN FindStep(st, stream[lo], atoms, currentLine)
  ELSE LET mid == (lo + hi) \div 2
           left == FindRange(stream, atoms, currentLine, lo, mid, st)
       IN IF left.brk THEN left
          ELSE FindRange(stream, atoms, currentLine, mid + 1, hi, left)

\* the search loop of find
FindLoop(stream, atoms, currentLine) ==
  FindRange(stream, atoms, currentLine, 1, Len(stream),
            [searchMatches |-> <<>>, firstMatchAfterCursor |-> <<>>,
             currentMatchIndex |-> -1, lineNum |-> 1, lastIndex |-> 0,
             brk |-> FALSE])

\* "If no match after cursor, wrap to beginning"
FindWrap(r) ==
  IF r.firstMatchAfterCursor = <<>> /\ Len(r.searchMatches) > 0
  THEN [r EXCEPT !.firstMatchAfterCursor = <<r.searchMatches[1]>>,
                 !.currentMatchIndex = 0]
  ELSE r

FindScan(stream, atoms, currentLine) == FindWrap(FindLoop(stream, atoms, currentLine))

\* the text of find's success response
FoundText(state) == Text("Found match", 1, Len(state.searchMatches), <<>>)

\* FindMissed that throws instead of returning a text
FindMissed_Throws(state, pattern, ps) ==
  Result(state, Failure("InvalidParams", Text("Pattern not found", 0, 0, pattern)), ps)

\* find's else branch: no match was collected
FindMissed(state, pattern, ps) ==
  Result(state, Ok(Text("Pattern not found", 0, 0, pattern), <<>>), ps)

\* case 'find' on the state getNavigatorState returned
FindOn(state0, filename, src, pattern, isRegex) ==
  LET state == [state0 EXCEPT !.searchMatches = <<>>, !.currentMatchIndex = -1]
  IN IF isRegex /\ ~RegexValid(pattern)
     THEN Result(state,
                 Failure("InvalidParams", Text("Invalid regex pattern", 0, 0, pattern)),
                 <<>>)
     ELSE IF src.error # "none"
     THEN Result([state EXCEPT !.searchPattern = <<pattern>>],
                 Thrown(filename, src.error), <<PassOf(src, FALSE)>>)
     ELSE LET atoms == IF isRegex THEN CompileRegex(pattern)
                                  ELSE EscapeLiteral(pattern)
              stream == src.stream
              r == FindScan(stream, atoms, state.currentLine)
              searched == [state EXCEPT !.searchPattern = <<pattern>>,
                                        !.searchMatches = r.searchMatches,
                                        !.currentMatchIndex = r.currentMatchIndex]
          IN IF r.firstMatchAfterCursor # <<>>
             THEN LET moved == [searched EXCEPT
                                  !.currentLine = r.firstMatchAfterCursor[1].line]
                      lines == GetLines(stream, moved.currentLine, moved.screenHeight)
                      totalLines == GetTotalLines(stream)
                  IN Result(moved,
                            Ok(FoundText(moved), FormatScreen(lines, totalLines)),
                            <<PassOf(src, r.brk),
                              PassOf(src, GetLinesBreaks(stream, moved.currentLine,
                                                         moved.screenHeight)),
                              PassOf(src, FALSE)>>)
             ELSE FindMissed(searched, pattern, <<PassOf(src, r.brk)>>)

NoActiveSearch == Ok(Text("No active search. Use 'find' first.", 0, 0, <<>>), <<>>)

\* MatchText with the 0-based index
MatchText_ZeroBased(state) ==
  Text("Match", state.currentMatchIndex, Len(state.searchMatches), <<>>)

\* the text of next_match's and prev_match's success response
MatchText(state) ==
  Text("Match", state.currentMatchIndex + 1, Len(state.searchMatches), <<>>)

\* the rest of next_match and prev_match once the index is chosen
MoveToMatch(state, filename, src, index) ==
  LET match == state.searchMatches[index + 1]
      moved == [state EXCEPT !.currentMatchIndex = index,
                             !.currentLine = match.line]
  IN IF src.error # "none"
     THEN Result(moved, Thrown(filename, src.error), <<PassOf(src, FALSE)>>)
     ELSE LET stream == src.stream
              lines == GetLines(stream, moved.currentLine, moved.screenHeight)
              totalLines == GetTotalLines(stream)
          IN Result(moved, Ok(MatchText(moved), FormatScreen(lines, totalLines)),
                    <<PassOf(src, GetLinesBreaks(stream, moved.currentLine,
                                                 moved.screenHeight)),
                      PassOf(src, FALSE)>>)

\* NextIndex that stops at the last match
NextIndex_NoWrap(state) ==
  Min(state.currentMatchIndex + 1, Len(state.searchMatches) - 1)

\* the index next_match moves to
NextIndex(state) == (state.currentMatchIndex + 1) % Len(state.searchMatches)

\* NextMatchOn that goes back to the top of the file when there is no search
NextMatchOn_Rewinds(state, filename, src) ==
  IF Len(state.searchMatches) = 0
  THEN Result([state EXCEPT !.currentLine = 1], NoActiveSearch, <<>>)
  ELSE MoveToMatch(state, filename, src, NextIndex(state))

\* case 'next_match' on the state getNavigatorState returned
NextMatchOn(state, filename, src) ==
  IF Len(state.searchMatches) = 0
  THEN Result(state, NoActiveSearch, <<>>)
  ELSE MoveToMatch(state, filename, src, NextIndex(state))

\* the index prev_match moves to
PrevIndex(state) ==
  IF state.currentMatchIndex - 1 < 0
  THEN Len(state.searchMatches) - 1
  ELSE state.currentMatchIndex - 1

\* case 'prev_match' on the state getNavigatorState returned
PrevMatchOn(state, filename, src) ==
  IF Len(state.searchMatches) = 0
  THEN Result(state, NoActiveSearch, <<>>)
  ELSE MoveToMatch(state, filename, src, PrevIndex(state))

\* the line page_up moves to
PageUpLine(state) == Max(1, state.currentLine - state.screenHeight)

\* case 'page_up' on the state getNavigatorState returned
PageUpOn(state, filename, src) ==
  LET moved == [state EXCEPT !.currentLine = PageUpLine(state)]
  IN IF src.error # "none"
     THEN Result(moved, Thrown(filename, src.error), <<PassOf(src, FALSE)>>)
     ELSE LET stream == src.stream
              lines == GetLines(stream, moved.currentLine, moved.screenHeight)
              totalLines == GetTotalLines(stream)
          IN Result(moved, Ok(NoText, FormatScreen(lines, totalLines)),
                    <<PassOf(src, GetLinesBreaks(stream, moved.currentLine,
                                                 moved.screenHeight)),
                      PassOf(src, FALSE)>>)

\* PageDownLine by the default page, whatever screenHeight is
PageDownLine_DefaultPage(state, totalLines) ==
  Min(totalLines, state.currentLine + DEFAULT_SCREEN_HEIGHT)

\* the line page_down moves to
PageDownLine(state, totalLines) ==
  Min(totalLines, state.currentLine + state.screenHeight)

\* case 'page_down' on the state getNavigatorState returned
PageDownOn(state, filename, src) ==
  IF src.error # "none"
  THEN Result(state, Thrown(filename, src.error), <<PassOf(src, FALSE)>>)
  ELSE LET stream == src.stream
           totalLines == GetTotalLines(stream)
           moved == [state EXCEPT !.currentLine = PageDownLine(state, totalLines)]
           lines == GetLines(stream, moved.currentLine, moved.screenHeight)
       IN Result(moved, Ok(NoText, FormatScreen(lines, totalLines)),
                 <<PassOf(src, FALSE),
                   PassOf(src, GetLinesBreaks(stream, moved.currentLine,
                                              moved.screenHeight))>>)

Tools == {"go_to_line", "find", "next_match", "prev_match", "page_up", "page_down"}

---------------------------------------------------------------------------
(* Calls in flight.  The handler is an async function: a call runs up to   *)
(* the next point at which it returns to the event loop and is resumed     *)
(* later, and nothing in the handler keeps a second call from being        *)
(* started or resumed, or the file system from changing, in between.  A    *)
(* call is its position and its local variables.  It returns to the event  *)
(* loop at `await fs.access(filename)` (pc "access") and, in each read     *)
(* pass (pc "total" and "count": getTotalLines, "lines": getLines, "scan": *)
(* the loop of find), at `await fs.open` (at "open"), at each read of the  *)
(* stream ("read") and, once the stream has read the end of the file or    *)
(* has failed, at the close of the stream ("closing").  The lines of a     *)
(* chunk are yielded and consumed in the resumption of the read that       *)
(* delivers the chunk; the unfinished last line (`if (buffer) yield        *)
(* buffer`) is yielded in the resumption of the stream's close, which has  *)
(* closed the file handle, so that `await fileHandle.close()` resolves     *)
(* without a return to the event loop; an error of the stream is thrown in *)
(* the resumption of its close.  A consumer's break destroys the stream,   *)
(* whose handle is closed later, and the code after the loop runs on.  A   *)
(* step is the code the call runs from one return to the event loop to the *)
(* next, on the navigator state and the file system as they are at that    *)
(* moment.  The files of the model are shorter than a chunk of the stream  *)
(* (64 KiB): a read delivers all that the file holds beyond the position   *)
(* of the stream, and the read after it finds the end of file.             *)

CallIds == {1, 2}

NoArgs == Args("none", "", 0, <<>>, <<>>, FALSE)

NoCall == [args |-> NoArgs, repeated |-> FALSE]

\* a call and its local variables
NewCall(args, pc) ==
  [args |-> args, pc |-> pc,
   at |-> "none",                     \* where in the read pass it awaits
   totalLines |-> 0,                  \* const totalLines
   start |-> 0, count |-> 0,          \* the arguments passed to getLines
   lines |-> <<>>,                    \* getLines: const lines
   currentLine |-> 1,                 \* getLines: let currentLine
   lineCount |-> 0,                   \* getTotalLines: let count
   atoms |-> <<>>,                    \* searchRegex
   lastIndex |-> 0,                   \* searchRegex.lastIndex
   lineNum |-> 1,                     \* let lineNum
   first |-> <<>>,                    \* let firstMatchAfterCursor
   offset |-> 0,                      \* readFileLines: characters the stream has read
   buffer |-> <<>>,                   \* readFileLines: let buffer
   failed |-> "none",                 \* the error the stream has failed with
   held |-> <<>>,                     \* <<content>> of the open file once it is unlinked
   passes |-> <<>>,                   \* the read passes made so far
   destroyed |-> 0,                   \* handles of its destroyed streams, not closed yet
   response |-> Ok(NoText, <<>>),
   before |-> FreshState(""),         \* history: the file's state at the request
   repeated |-> FALSE,                \* history: a go_to_line that repeats the call before it
   priorResponse |-> Ok(NoText, <<>>), \* history: the response of the call it repeats
   afterMiss |-> FALSE,               \* history: follows a find that found nothing in the file
   missing |-> FALSE,                 \* history: the file did not exist at the request
   known |-> FALSE,                   \* history: the file had a navigator state at the request
   disturbed |-> FALSE,               \* history: the file system changed during the call
   overlapped |-> FALSE]              \* history: ran while another call was in flight

\* no call has been made
Idle(ids) == [c \in ids |-> NewCall(NoArgs, "idle")]

\* the call has been started and has not returned
InFlight(c) == calls[c].pc \notin {"idle", "done"}

\* call c is suspended at pc in one of the tools ops
At(c, ops, pc) == calls[c].args.op \in ops /\ calls[c].pc = pc

\* call c is resumed after `await fs.access(filename)` in one of the tools ops
Entered(c, ops) == At(c, ops, "access") /\ AccessOk(calls[c].args.filename)

\* the navigator state object a call holds, as it is now
StateOf(call) == GetNavigatorState(call.args.filename)

\* the call record of a call that has returned: its locals are gone
Finished(call, resp) ==
  [NewCall(call.args, "done") EXCEPT
     !.response = resp,
     !.destroyed = call.destroyed,
     !.before = call.before,
     !.repeated = call.repeated,
     !.priorResponse = call.priorResponse,
     !.afterMiss = call.afterMiss,
     !.missing = call.missing,
     !.known = call.known,
     !.disturbed = call.disturbed,
     !.overlapped = call.overlapped]

\* the calls after a step of call c that leaves it as call2 (history: the
\* calls in flight at the step have overlapped)
Stepped(c, call2) ==
  [d \in DOMAIN calls |->
     IF d = c
     THEN [call2 EXCEPT !.overlapped = @ \/ \E e \in DOMAIN calls \ {c} : InFlight(e)]
     ELSE IF InFlight(d) THEN [calls[d] EXCEPT !.overlapped = TRUE]
     ELSE calls[d]]

\* What a stretch of the handler's code leaves: the call's locals, the
\* file's navigator state and, when the handler returns, the response.
Suspended(call, state) ==
  [returns |-> FALSE, call |-> call, state |-> state,
   response |-> Ok(NoText, <<>>), landed |-> NoLanded]

Returned(call, state, resp, land) ==
  [returns |-> TRUE, call |-> call, state |-> state, response |-> resp,
   landed |-> land]

\* the step of call c that runs such a stretch; issued: it is the step in
\* which the request arrives
Effect(c, out, issued) ==
  /\ calls' = Stepped(c, IF out.returns THEN Finished(out.call, out.response)
                         ELSE out.call)
  /\ navigatorStates' = Put(out.call.args.filename, out.state)
  /\ IF out.returns
     THEN /\ response' = out.response
          /\ passes' = out.call.passes
          /\ last' = [args |-> out.call.args, repeated |-> out.call.repeated]
          /\ landed' = out.landed
     ELSE IF issued
     THEN /\ response' = Ok(NoText, <<>>)
          /\ passes' = <<>>
          /\ last' = NoCall
          /\ UNCHANGED landed
     ELSE UNCHANGED <<response, passes, last, landed>>
  /\ UNCHANGED <<fs, fault, reader>>

\* a step in which call c is resumed
Take(c, out) == Effect(c, out, FALSE) /\ UNCHANGED steps

\* the step in which call c throws resp out of the handler
Leave(c, call, resp) ==
  /\ calls' = Stepped(c, Finished(call, resp))
  /\ response' = resp
  /\ passes' = call.passes
  /\ last' = [args |-> call.args, repeated |-> call.repeated]
  /\ landed' = NoLanded
  /\ UNCHANGED <<fs, fault, navigatorStates, steps, reader>>

---------------------------------------------------------------------------
(* A read pass of a call *)

\* the call goes on to `await fs.open` of a pass of readFileLines
OpenPass(call, pc) ==
  [call EXCEPT !.pc = pc, !.at = "open", !.offset = 0, !.buffer = <<>>,
               !.failed = "none", !.held = <<>>,
               !.lineCount = 0, !.currentLine = 1]

\* the call goes on to getLines(filename, start, count)
OpenLines(call, start, count) ==
  [OpenPass(call, "lines") EXCEPT !.start = start, !.count = count, !.lines = <<>>]

\* the pass of the call is over, left in the way exit; released: the stream
\* has closed the handle.  The handle of a stream that the consumer's break
\* destroys is closed later.
ClosePass(call, exit, released) ==
  [call EXCEPT !.at = "none", !.offset = 0, !.buffer = <<>>,
               !.failed = "none", !.held = <<>>,
               !.passes = Append(@, ReadPass(exit, released)),
               !.destroyed = IF exit = "break" /\ ~released THEN @ + 1 ELSE @]

\* fs.open(filename) resolves
OpenOk(call) ==
  IF call.args.filename \in DOMAIN fs
  THEN fault[call.args.filename] # "EACCES"
  ELSE FALSE

\* a read of the stream of the call's pass fails
ReadFails(call) ==
  IF call.held = <<>> /\ call.args.filename \in DOMAIN fs
  THEN fault[call.args.filename] = "EIO"
  ELSE FALSE

\* the content of the file the call's pass has open
FileOf(call) ==
  IF call.held # <<>> THEN call.held[1] ELSE fs[call.args.filename]

\* The consumer of the pass takes the lines the generator yields in one
\* resumption: getTotalLines counts them, getLines takes them up to its
\* break, find tests them, pushing the matches into the navigator state, up
\* to its break.
Consume(call, state, lines) ==
  IF call.pc = "lines"
  THEN LET r == GetLinesLoop(lines, call.start, call.count, 1, Len(lines),
                             [lines |-> call.lines,
                              currentLine |-> call.currentLine,
                              brk |-> FALSE])
       IN [brk |-> r.brk,
           call |-> [call EXCEPT !.lines = r.lines, !.currentLine = r.currentLine],
           state |-> state]
  ELSE IF call.pc = "scan"
  THEN LET r == FindRange(lines, call.atoms, state.currentLine, 1, Len(lines),
                          [searchMatches |-> state.searchMatches,
                           firstMatchAfterCursor |-> call.first,
                           currentMatchIndex |-> state.currentMatchIndex,
                           lineNum |-> call.lineNum,
                           lastIndex |-> call.lastIndex,
                           brk |-> FALSE])
       IN [brk |-> r.brk,
           call |-> [call EXCEPT !.first = r.firstMatchAfterCursor,
                                 !.lineNum = r.lineNum,
                                 !.lastIndex = r.lastIndex],
           state |-> [state EXCEPT !.searchMatches = r.searchMatches,
                                   !.currentMatchIndex = r.currentMatchIndex]]
  ELSE [brk |-> FALSE,
        call |-> [call EXCEPT !.lineCount = @ + Len(lines)],
        state |-> state]

\* A read of the stream completes.  A failed read, and a read that finds
\* the end of the file, make the stream close its handle: no code of the
\* handler runs.  A chunk is split into lines and the unfinished rest kept
\* in the buffer; the consumer takes the lines, and its break ends the pass
\* with the handle still open.
ReadStep(call, state) ==
  LET content == FileOf(call)
      chunk == SubSeq(content, call.offset + 1, Len(content))
      st == ChunkStep([buffer |-> call.buffer, out |-> <<>>, brk |-> FALSE], chunk)
      r == Consume([call EXCEPT !.offset = @ + Len(chunk), !.buffer = st.buffer],
                   state, st.out)
  IN IF ReadFails(call)
     THEN [ended |-> FALSE, state |-> state,
           call |-> [call EXCEPT !.at = "closing", !.failed = "EIO"]]
     ELSE IF chunk = <<>>
     THEN [ended |-> FALSE, state |-> state,
           call |-> [call EXCEPT !.at = "closing"]]
     ELSE IF r.brk
     THEN [ended |-> TRUE, state |-> r.state,
           call |-> ClosePass(r.call, "break", FALSE)]
     ELSE [ended |-> FALSE, state |-> r.state, call |-> r.call]

\* The stream that read to the end of the file has closed: its loop ends,
\* `if (buffer) yield buffer` hands the consumer the unfinished last line,
\* and the pass is over: at `await fileHandle.close()` the handle is closed
\* already.
CloseStep(call, state) ==
  LET r == Consume(call, state,
                   IF call.buffer # <<>> THEN <<call.buffer>> ELSE <<>>)
  IN [ended |-> TRUE, state |-> r.state,
      call |-> ClosePass(r.call, IF r.brk THEN "break" ELSE "end", TRUE)]

\* what call c does when the read or the close of the stream it awaits
\* completes now (none when it awaits neither, or the stream that closes
\* has failed): the locals and the navigator state it leaves, and whether
\* its pass is over
Resumed(c) ==
  IF calls[c].at = "read"
  THEN { ReadStep(calls[c], GetNavigatorState(calls[c].args.filename)) }
  ELSE IF calls[c].at = "closing" /\ calls[c].failed = "none"
  THEN { CloseStep(calls[c], GetNavigatorState(calls[c].args.filename)) }
  ELSE {}

---------------------------------------------------------------------------
(* The stretches of the handler's code between two suspensions *)

\* go_to_line up to `await getTotalLines(filename)`
GoToLineStartOf(call, state) == Suspended(OpenPass(call, "total"), state)

\* go_to_line from there up to `await getLines(...)`
GoToLineMoveOf(call, state) ==
  LET screenHeight == call.args.screen_height
      totalLines == call.lineCount
      height == IF screenHeight # <<>> /\ screenHeight[1] # 0
                THEN screenHeight[1]
                ELSE state.screenHeight
      currentLine == GoToLineTarget(call.args.line, totalLines)
  IN Suspended(OpenLines([call EXCEPT !.totalLines = totalLines],
                         currentLine, height),
               [state EXCEPT !.screenHeight = height, !.currentLine = currentLine])

\* go_to_line and page_down from `await getLines(...)` to the return
ScreenReturnOf(call, state) ==
  Returned(call, state, Ok(NoText, FormatScreen(call.lines, call.totalLines)),
           NoLanded)

\* find from the end of its scan up to `await getLines(...)`, or to the
\* return of "Pattern not found"
FindAfterScanOf(call, state) ==
  LET r == FindWrap([searchMatches |-> state.searchMatches,
                     firstMatchAfterCursor |-> call.first,
                     currentMatchIndex |-> state.currentMatchIndex])
      wrapped == [state EXCEPT !.currentMatchIndex = r.currentMatchIndex]
  IN IF r.firstMatchAfterCursor # <<>>
     THEN Suspended(OpenLines([call EXCEPT !.first = r.firstMatchAfterCursor],
                              r.firstMatchAfterCursor[1].line,
                              state.screenHeight),
                    [wrapped EXCEPT !.currentLine = r.firstMatchAfterCursor[1].line])
     ELSE Returned(call, wrapped,
                   FindMissed(wrapped, call.args.pattern, call.passes).response,
                   NoLanded)

\* find up to the `for await` of its scan, or to the throw for a pattern
\* that does not compile
FindStartOf(call, state0) ==
  LET state == [state0 EXCEPT !.searchMatches = <<>>, !.currentMatchIndex = -1]
      pattern == call.args.pattern
      isRegex == call.args.is_regex
  IN IF isRegex /\ ~RegexValid(pattern)
     THEN Returned(call, state,
                   Failure("InvalidParams",
                           Text("Invalid regex pattern", 0, 0, pattern)),
                   NoLanded)
     ELSE Suspended([OpenPass(call, "scan") EXCEPT
                       !.atoms = IF isRegex THEN CompileRegex(pattern)
                                            ELSE EscapeLiteral(pattern),
                       !.lastIndex = 0, !.lineNum = 1, !.first = <<>>],
                    [state EXCEPT !.searchPattern = <<pattern>>])

\* find, next_match, prev_match and page_up from `await getLines(...)` up to
\* `await getTotalLines(filename)`
LinesReadOf(call, state) == Suspended(OpenPass(call, "count"), state)

\* find from the last await to the return
FindReturnOf(call, state) ==
  Returned(call, state,
           Ok(FoundText(state), FormatScreen(call.lines, call.lineCount)),
           [active |-> TRUE, filename |-> call.args.filename,
            index |-> state.currentMatchIndex,
            line |-> state.currentLine, run |-> 0])

\* next_match and prev_match up to `await getLines(...)`, or to the return of
\* "No active search"
MatchStartOf(call, state) ==
  LET f == call.args.filename
      index == IF call.args.op = "next_match" THEN NextIndex(state)
                                               ELSE PrevIndex(state)
      none == IF call.args.op = "next_match"
              THEN NextMatchOn(state, f, Source(f))
              ELSE PrevMatchOn(state, f, Source(f))
  IN IF Len(state.searchMatches) = 0
     THEN Returned(call, none.state, none.response, NoLanded)
     ELSE Suspended(OpenLines(call, state.searchMatches[index + 1].line,
                              state.screenHeight),
                    [state EXCEPT !.currentMatchIndex = index,
                                  !.currentLine = state.searchMatches[index + 1].line])

\* next_match and prev_match from the last await to the return
MatchReturnOf(call, state) ==
  Returned(call, state,
           Ok(MatchText(state), FormatScreen(call.lines, call.lineCount)),
           IF /\ call.args.op = "next_match"
              /\ landed.active
              /\ landed.filename = call.args.filename
              /\ landed.run < Len(state.searchMatches)
           THEN [landed EXCEPT !.run = @ + 1]
           ELSE NoLanded)

\* page_up up to `await getLines(...)`
PageUpStartOf(call, state) ==
  Suspended(OpenLines(call, PageUpLine(state), state.screenHeight),
            [state EXCEPT !.currentLine = PageUpLine(state)])

\* page_up from the last await to the return
PageUpReturnOf(call, state) ==
  Returned(call, state, Ok(NoText, FormatScreen(call.lines, call.lineCount)),
           NoLanded)

\* page_down up to `await getTotalLines(filename)`
PageDownStartOf(call, state) == Suspended(OpenPass(call, "total"), state)

\* page_down from there up to `await getLines(...)`
PageDownMoveOf(call, state) ==
  LET totalLines == call.lineCount
  IN Suspended(OpenLines([call EXCEPT !.totalLines = totalLines],
                         PageDownLine(state, totalLines), state.screenHeight),
               [state EXCEPT !.currentLine = PageDownLine(state, totalLines)])

\* the handler from `switch (name)` to its first suspension or its return
StartOf(call, state) ==
  CASE call.args.op = "go_to_line" -> GoToLineStartOf(call, state)
    [] call.args.op = "find" -> FindStartOf(call, state)
    [] call.args.op \in {"next_match", "prev_match"} -> MatchStartOf(call, state)
    [] call.args.op = "page_up" -> PageUpStartOf(call, state)
    [] call.args.op = "page_down" -> PageDownStartOf(call, state)

---------------------------------------------------------------------------
(* The steps of a call *)

\* A request arrives.  The handler runs up to `await fs.access(filename)`;
\* for the empty filename it does not await fs.access and runs on into the
\* tool, to the first suspension there or to the return.  The record of
\* the call the client made before, the count of its handles not closed
\* yet included, is replaced by that of the new call.
Issue(c, args) ==
  /\ ~InFlight(c)
  /\ LET repeated == args.op = "go_to_line" /\ last.args = args
         call == [NewCall(args, "access") EXCEPT
                    !.before = GetNavigatorState(args.filename),
                    !.repeated = repeated,
                    !.priorResponse = IF repeated THEN response ELSE @,
                    !.afterMiss = /\ last.args.op = "find"
                                  /\ last.args.filename = args.filename
                                  /\ response.text.msg = "Pattern not found",
                    !.missing = args.filename \notin DOMAIN fs,
                    !.known = args.filename \in DOMAIN navigatorStates]
     IN IF args.filename # ""
        THEN /\ calls' = Stepped(c, call)
             /\ response' = Ok(NoText, <<>>)
             /\ passes' = <<>>
             /\ last' = NoCall
             /\ UNCHANGED <<fs, fault, navigatorStates, landed, reader>>
        ELSE \E out \in {StartOf(call, StateOf(call))} : Effect(c, out, TRUE)

\* fs.access rejects with ENOENT: the catch block maps it to InvalidParams
FileNotFound(c) ==
  /\ calls[c].pc = "access"
  /\ ~AccessOk(calls[c].args.filename)
  /\ Leave(c, calls[c], Thrown(calls[c].args.filename, "ENOENT"))

\* fs.open of a read pass rejects, or the stream of a pass that has failed
\* closes: the catch block rethrows the error, ENOENT as InvalidParams
Throws(c) ==
  \/ /\ calls[c].at = "open"
     /\ ~OpenOk(calls[c])
     /\ Leave(c, ClosePass(calls[c], "open failed", FALSE),
              Thrown(calls[c].args.filename,
                     IF calls[c].args.filename \in DOMAIN fs THEN "EACCES"
                                                              ELSE "ENOENT"))
  \/ /\ calls[c].at = "closing"
     /\ calls[c].failed # "none"
     /\ Leave(c, ClosePass(calls[c], "read failed", TRUE),
              Thrown(calls[c].args.filename, calls[c].failed))

\* fs.open of a read pass resolves; the call awaits the first read
PassOpen(c) ==
  /\ calls[c].at = "open"
  /\ OpenOk(calls[c])
  /\ Take(c, Suspended([calls[c] EXCEPT !.at = "read"], StateOf(calls[c])))

\* a read of the stream completes and the pass goes on
PassRead(c) ==
  \E r \in Resumed(c) :
     /\ ~r.ended
     /\ Take(c, Suspended(r.call, r.state))

\* the handle of a stream that a break of call c destroyed is closed
HandleClosed(c) ==
  /\ calls[c].destroyed > 0
  /\ calls' = [calls EXCEPT ![c].destroyed = @ - 1]
  /\ UNCHANGED <<fs, fault, navigatorStates, response, passes, last, landed,
                 steps, reader>>

GoToLineStart(c) ==
  /\ Entered(c, {"go_to_line"})
  /\ \E out \in {GoToLineStartOf(calls[c], StateOf(calls[c]))} : Take(c, out)

GoToLineMove(c) ==
  /\ At(c, {"go_to_line"}, "total")
  /\ \E r \in Resumed(c) :
        /\ r.ended
        /\ \E out \in {GoToLineMoveOf(r.call, r.state)} : Take(c, out)

ScreenReturn(c) ==
  /\ At(c, {"go_to_line", "page_down"}, "lines")
  /\ \E r \in Resumed(c) :
        /\ r.ended
        /\ \E out \in {ScreenReturnOf(r.call, r.state)} : Take(c, out)

FindStart(c) ==
  /\ Entered(c, {"find"})
  /\ \E out \in {FindStartOf(calls[c], StateOf(calls[c]))} : Take(c, out)

FindAfterScan(c) ==
  /\ At(c, {"find"}, "scan")
  /\ \E r \in Resumed(c) :
        /\ r.ended
        /\ \E out \in {FindAfterScanOf(r.call, r.state)} : Take(c, out)

LinesRead(c) ==
  /\ At(c, {"find", "next_match", "prev_match", "page_up"}, "lines")
  /\ \E r \in Resumed(c) :
        /\ r.ended
        /\ \E out \in {LinesReadOf(r.call, r.state)} : Take(c, out)

FindReturn(c) ==
  /\ At(c, {"find"}, "count")
  /\ \E r \in Resumed(c) :
        /\ r.ended
        /\ \E out \in {FindReturnOf(r.call, r.state)} : Take(c, out)

MatchStart(c) ==
  /\ Entered(c, {"next_match", "prev_match"})
  /\ \E out \in {MatchStartOf(calls[c], StateOf(calls[c]))} : Take(c, out)

MatchReturn(c) ==
  /\ At(c, {"next_match", "prev_match"}, "count")
  /\ \E r \in Resumed(c) :
        /\ r.ended
        /\ \E out \in {MatchReturnOf(r.call, r.state)} : Take(c, out)

PageUpStart(c) ==
  /\ Entered(c, {"page_up"})
  /\ \E out \in {PageUpStartOf(calls[c], StateOf(calls[c]))} : Take(c, out)

PageUpReturn(c) ==
  /\ At(c, {"page_up"}, "count")
  /\ \E r \in Resumed(c) :
        /\ r.ended
        /\ \E out \in {PageUpReturnOf(r.call, r.state)} : Take(c, out)

PageDownStart(c) ==
  /\ Entered(c, {"page_down"})
  /\ \E out \in {PageDownStartOf(calls[c], StateOf(calls[c]))} : Take(c, out)

PageDownMove(c) ==
  /\ At(c, {"page_down"}, "total")
  /\ \E r \in Resumed(c) :
        /\ r.ended
        /\ \E out \in {PageDownMoveOf(r.call, r.state)} : Take(c, out)

\* call c is resumed at a suspension whose promise resolved
Resume(c) ==
  \/ PassOpen(c)
  \/ PassRead(c)
  \/ GoToLineStart(c)
  \/ GoToLineMove(c)
  \/ ScreenReturn(c)
  \/ FindStart(c)
  \/ FindAfterScan(c)
  \/ LinesRead(c)
  \/ FindReturn(c)
  \/ MatchStart(c)
  \/ MatchReturn(c)
  \/ PageUpStart(c)
  \/ PageUpReturn(c)
  \/ PageDownStart(c)
  \/ PageDownMove(c)

---------------------------------------------------------------------------
(* Files and inputs *)

LineSet == { <<"a">>, <<"b", "A">> }

RECURSIVE Join(_)
Join(ls) ==
  IF ls = <<>> THEN <<>>
  ELSE IF Len(ls) = 1 THEN ls[1]
  ELSE ls[1] \o <<"\n">> \o Join(Tail(ls))

LineSeqs(n) == UNION { [1..k -> LineSet] : k \in 0..n }

\* the files of up to MaxLines lines of LineSet joined by newlines, and the
\* files of at most one line that end with a newline
Contents ==
  { Join(ls) : ls \in LineSeqs(MaxLines) } \cup
  { Join(ls) \o <<"\n">> : ls \in LineSeqs(1) }

\* BigLines lines "a", each ended by a newline
BigContent ==
  [i \in 1..(2 * BigLines) |-> IF i % 2 = 0 THEN "\n" ELSE "a"]

Paths == {"f"}

LineArgs == { -1, 0, 2, MaxLines + 1 }

\* screen_height: absent, or <<n>>
ScreenHeights == { <<>>, <<0>>, <<1>>, <<2>> }

Patterns == { <<"a">>, <<"b", "a">>, <<".">>, <<"(">> }

\* the requests of the six tools with arguments from the given sets
Requests(paths, lineArgs, heights, patterns) ==
  { Args("go_to_line", f, line, h, <<>>, FALSE) :
      f \in paths, line \in lineArgs, h \in heights } \cup
  { Args("find", f, 0, <<>>, p, isRegex) :
      f \in paths, p \in patterns, isRegex \in BOOLEAN } \cup
  { Args(op, f, 0, <<>>, <<>>, FALSE) :
      op \in {"next_match", "prev_match", "page_up", "page_down"}, f \in paths }

\* the requests of the six tools for a file that does not exist
MissingRequests ==
  { Args(op, "missing", 0, <<>>, <<>>, FALSE) : op \in Tools }

\* no file has a fault
NoFault == [f \in DOMAIN fs |-> "none"]

\* the server has started: no navigator state, no call yet
Started ==
  /\ navigatorStates = [f \in {} |-> FreshState(f)]
  /\ response = Ok(NoText, <<>>)
  /\ passes = <<>>
  /\ last = NoCall
  /\ landed = NoLanded
  /\ steps = 0

\* One client that sends a request when the one before it has returned;
\* the file system does not change.
OneClient == {1}

Init ==
  /\ fs \in { [f \in {"f"} |-> c] : c \in Contents }
  /\ fault = NoFault
  /\ Started
  /\ calls = Idle(OneClient)
  /\ reader = <<>>

Next ==
  \E c \in OneClient :
     \/ \E args \in Requests(Paths, LineArgs, ScreenHeights, Patterns)
                        \cup MissingRequests :
           Issue(c, args) /\ UNCHANGED steps
     \/ FileNotFound(c)
     \/ Resume(c)
     \/ HandleClosed(c)

Spec == Init /\ [][Next]_vars

\* The large file: more lines than MAX_SEARCH_RESULTS.  The empty pattern
\* occurs in every line (an empty match leaves lastIndex where it was); the
\* pattern "a" occurs in every line too.  Each behaviour is a short series
\* of calls of the one client.
CapLineArgs == { BigLines + 1 }

CapHeights == { <<>> }

CapPatterns == { <<>>, <<"a">> }

CapRequests ==
  { args \in Requests(Paths, CapLineArgs, CapHeights, CapPatterns) : ~args.is_regex }
    \cup MissingRequests

InitCap ==
  /\ fs = [f \in {"f"} |-> BigContent]
  /\ fault = NoFault
  /\ Started
  /\ calls = Idle(OneClient)
  /\ reader = <<>>

NextCap ==
  \E c \in OneClient :
     \/ \E args \in CapRequests :
           /\ steps < MaxCapSteps
           /\ steps' = steps + 1
           /\ Issue(c, args)
     \/ FileNotFound(c)
     \/ Resume(c)
     \/ HandleClosed(c)

SpecCap == InitCap /\ [][NextCap]_vars

\* The wider environment: the empty filename, a negative screen_height, and
\* a file system that changes under the server, between the calls and while
\* a call is suspended: the file stops being readable (fs.open rejects with
\* EACCES, which fs.access(filename) does not detect; a pass that has the
\* file open reads on), its reads fail (EIO), it is removed, or it is written
\* anew (a pass that has it open reads the new content from the position
\* its stream has reached).  Each behaviour is a short series of calls of
\* the one client and file system events.
EnvPaths == {"f", ""}

EnvLineArgs == { 2, MaxLines + 1 }

EnvHeights == { <<>>, <<-1>>, <<1>> }

EnvPatterns == { <<"a">>, <<"(">> }

EnvContents == { Join([i \in 1..k |-> <<"a">>]) : k \in 0..MaxLines }

Faults == {"none", "EACCES", "EIO"}

\* history: the calls in flight have seen the file system change
Disturbed ==
  [c \in DOMAIN calls |->
     IF InFlight(c) THEN [calls[c] EXCEPT !.disturbed = TRUE] ELSE calls[c]]

\* the file's permissions or its device change
SetFault(f, k) ==
  /\ f \in DOMAIN fs
  /\ fault[f] # k
  /\ fault' = [fault EXCEPT ![f] = k]
  /\ calls' = Disturbed
  /\ UNCHANGED <<fs, navigatorStates, response, passes, last, landed, reader>>

\* the file is removed: a pass that has it open goes on reading what it
\* held
Unlink(f) ==
  /\ f \in DOMAIN fs
  /\ fs' = [g \in DOMAIN fs \ {f} |-> fs[g]]
  /\ fault' = [g \in DOMAIN fs \ {f} |-> fault[g]]
  /\ calls' =
       [c \in DOMAIN calls |->
          IF calls[c].args.filename = f /\ calls[c].at \in {"read", "closing"}
          THEN [Disturbed[c] EXCEPT !.held = <<fs[f]>>]
          ELSE Disturbed[c]]
  /\ UNCHANGED <<navigatorStates, response, passes, last, landed, reader>>

\* the file is written anew with the given content
WriteFile(f, content) ==
  /\ f \in DOMAIN fs
  /\ fs[f] # content
  /\ fs' = [fs EXCEPT ![f] = content]
  /\ calls' = Disturbed
  /\ UNCHANGED <<fault, navigatorStates, response, passes, last, landed, reader>>

InitEnv ==
  /\ fs \in { [f \in {"f"} |-> c] : c \in EnvContents }
  /\ fault = NoFault
  /\ Started
  /\ calls = Idle(OneClient)
  /\ reader = <<>>

\* a call or a file system event is one step of the bounded behaviour
Counted == steps < MaxEnvSteps /\ steps' = steps + 1

NextEnv ==
  \/ \E c \in OneClient :
        \/ \E args \in Requests(EnvPaths, EnvLineArgs, EnvHeights, EnvPatterns)
                           \cup MissingRequests :
              Counted /\ Issue(c, args)
        \/ FileNotFound(c)
        \/ Throws(c)
        \/ Resume(c)
        \/ HandleClosed(c)
  \/ \E k \in Faults : Counted /\ SetFault("f", k)
  \/ Counted /\ Unlink("f")
  \/ \E content \in EnvContents : Counted /\ WriteFile("f", content)

SpecEnv == InitEnv /\ [][NextEnv]_vars

\* Two files, each navigated by its own path.
TwoPaths == {"f", "g"}

TwoLineArgs == { 2 }

TwoHeights == { <<>>, <<1>> }

TwoPatterns == { <<"a">> }

InitTwo ==
  /\ fs \in [TwoPaths -> EnvContents]
  /\ fault = NoFault
  /\ Started
  /\ calls = Idle(OneClient)
  /\ reader = <<>>

NextTwo ==
  \E c \in OneClient :
     \/ \E args \in Requests(TwoPaths, TwoLineArgs, TwoHeights, TwoPatterns)
                        \cup MissingRequests :
           Issue(c, args) /\ UNCHANGED steps
     \/ FileNotFound(c)
     \/ Resume(c)
     \/ HandleClosed(c)

SpecTwo == InitTwo /\ [][NextTwo]_vars

\* One pass of readFileLines on its own: a content of up to MaxChars
\* characters, delivered by the stream in any division into non-empty
\* chunks.  The generator is suspended at `for await (const chunk of
\* stream)` (at "chunk"), at `yield line` ("yield"), at `yield buffer`
\* ("last") and at `await fileHandle.close()` ("close"); out is the lines it
\* has yielded.
Chars == {"a", "b", "\n"}

RawContents == UNION { [1..n -> Chars] : n \in 0..MaxChars }

\* the k-th smallest element of a set of numbers
Nth(S, k) == CHOOSE x \in S : Cardinality({ y \in S : y < x }) = k - 1

\* the chunks of content that end at the positions in cuts and at its end
ChunksAt(content, cuts) ==
  LET ends == cuts \cup {Len(content)}
  IN [k \in 1..Cardinality(ends) |->
        SubSeq(content, IF k = 1 THEN 1 ELSE Nth(ends, k - 1) + 1, Nth(ends, k))]

Chunkings(content) ==
  IF content = <<>> THEN { <<>> }
  ELSE { ChunksAt(content, cuts) : cuts \in SUBSET (1..(Len(content) - 1)) }

\* the generator goes on from its loop over the lines of a chunk: it
\* yields the next of them, or awaits the next chunk
YieldNext(r) ==
  IF r.pending # <<>>
  THEN [r EXCEPT !.out = Append(@, Head(r.pending)), !.pending = Tail(@),
                 !.at = "yield"]
  ELSE [r EXCEPT !.at = "chunk"]

\* the stream delivers a chunk
ReadChunk ==
  /\ reader.at = "chunk"
  /\ reader.next <= Len(reader.chunks)
  /\ reader' =
       LET st == ChunkStep([buffer |-> reader.buffer, out |-> <<>>,
                            brk |-> FALSE],
                           reader.chunks[reader.next])
       IN YieldNext([reader EXCEPT !.buffer = st.buffer, !.pending = st.out,
                                   !.next = @ + 1])
  /\ UNCHANGED <<fs, fault, navigatorStates, response, passes, last, landed,
                 steps, calls>>

\* the consumer asks for the next line
ReadYield ==
  /\ reader.at \in {"yield", "last"}
  /\ reader' = IF reader.at = "last" THEN [reader EXCEPT !.at = "close"]
               ELSE YieldNext(reader)
  /\ UNCHANGED <<fs, fault, navigatorStates, response, passes, last, landed,
                 steps, calls>>

\* the stream has ended: `if (buffer) yield buffer`
ReadEnd ==
  /\ reader.at = "chunk"
  /\ reader.next > Len(reader.chunks)
  /\ reader' = IF reader.buffer # <<>>
               THEN [reader EXCEPT !.out = ReadFlush(reader), !.at = "last"]
               ELSE [reader EXCEPT !.at = "close"]
  /\ UNCHANGED <<fs, fault, navigatorStates, response, passes, last, landed,
                 steps, calls>>

\* `await fileHandle.close()` resolves and the generator is done
ReadClose ==
  /\ reader.at = "close"
  /\ reader' = [reader EXCEPT !.at = "done", !.done = TRUE]
  /\ UNCHANGED <<fs, fault, navigatorStates, response, passes, last, landed,
                 steps, calls>>

InitRead ==
  /\ fs \in { [f \in {"f"} |-> c] : c \in RawContents }
  /\ fault = NoFault
  /\ Started
  /\ calls = <<>>
  /\ reader \in { [chunks |-> ch, next |-> 1, buffer |-> <<>>,
                    pending |-> <<>>, out |-> <<>>, at |-> "chunk",
                    done |-> FALSE] : ch \in Chunkings(fs["f"]) }

NextRead == ReadChunk \/ ReadYield \/ ReadEnd \/ ReadClose

SpecRead == InitRead /\ [][NextRead]_vars

\* One call of getLines on its own: the lines of a file, a start line and a
\* count of at least 1; one step per line taken from the stream, the step
\* of the break being the one in which getLines returns, and a last step
\* when the stream ends before the break.
WindowArgs == 1..(MaxLines + 1)

GetLinesNext ==
  /\ ~reader.done
  /\ ~reader.brk
  /\ reader.pos <= Len(reader.stream)
  /\ reader' =
       LET st == GetLinesStep([lines |-> reader.lines,
                               currentLine |-> reader.currentLine,
                               brk |-> FALSE],
                              reader.stream[reader.pos],
                              reader.startLine, reader.count)
       IN [reader EXCEPT !.lines = st.lines, !.currentLine = st.currentLine,
                         !.brk = st.brk, !.pos = @ + 1, !.done = st.brk]
  /\ UNCHANGED <<fs, fault, navigatorStates, response, passes, last, landed,
                 steps, calls>>

GetLinesEnd ==
  /\ ~reader.done
  /\ reader.pos > Len(reader.stream)
  /\ reader' = [reader EXCEPT !.done = TRUE]
  /\ UNCHANGED <<fs, fault, navigatorStates, response, passes, last, landed,
                 steps, calls>>

InitLines ==
  /\ fs \in { [f \in {"f"} |-> c] : c \in Contents }
  /\ fault = NoFault
  /\ Started
  /\ calls = <<>>
  /\ reader \in { [stream |-> ReadFileLines(fs["f"]),
                    startLine |-> startLine, count |-> count,
                    lines |-> <<>>, currentLine |-> 1, brk |-> FALSE,
                    pos |-> 1,        \* the next line the stream yields
                    done |-> FALSE] : startLine \in WindowArgs, count \in WindowArgs }

NextLines == GetLinesNext \/ GetLinesEnd

SpecLines == InitLines /\ [][NextLines]_vars

\* Two clients: each sends one request, the second possibly while the call
\* of the first is suspended at an await.  No pass of these calls is left
\* by a break.
AsyncArgs ==
  { Args("go_to_line", "f", 2, <<>>, <<>>, FALSE),
    Args("find", "f", 0, <<>>, <<"a">>, FALSE),
    Args("find", "f", 0, <<>>, <<"(">>, TRUE),
    Args("next_match", "f", 0, <<>>, <<>>, FALSE),
    Args("prev_match", "f", 0, <<>>, <<>>, FALSE),
    Args("page_up", "f", 0, <<>>, <<>>, FALSE),
    Args("page_down", "f", 0, <<>>, <<>>, FALSE) }

InitAsync ==
  /\ fs \in { [f \in {"f"} |-> c] : c \in EnvContents }
  /\ fault = NoFault
  /\ Started
  /\ calls = Idle(CallIds)
  /\ reader = <<>>

NextAsync ==
  \E c \in CallIds :
     \/ \E args \in AsyncArgs :
           /\ calls[c].pc = "idle"
           /\ Issue(c, args)
           /\ UNCHANGED steps
     \/ Resume(c)

SpecAsync == InitAsync /\ [][NextAsync]_vars

---------------------------------------------------------------------------
(* Properties *)

TypeOK ==
  /\ DOMAIN fault = DOMAIN fs
  /\ landed.run >= 0
  /\ \A c \in DOMAIN calls :
       /\ calls[c].pc \in {"idle", "access", "total", "scan", "lines", "count",
                           "done"}
       /\ calls[c].at \in {"none", "open", "read", "closing"}
       /\ calls[c].at # "none" <=> calls[c].pc \in {"total", "scan", "lines", "count"}
       /\ calls[c].failed # "none" => calls[c].at = "closing"
       /\ calls[c].destroyed \in 0..2
       /\ (calls[c].at = "read" /\ calls[c].held = <<>>)
            => calls[c].args.filename \in DOMAIN fs

\* no call is in flight: the states a client that waits for each response
\* sees
Quiet == \A c \in DOMAIN calls : ~InFlight(c)

\* a step in which call c returns (or throws); its history is in calls'[c]
Returns(c) ==
  /\ calls'[c].pc = "done"
  /\ \/ InFlight(c)
     \/ [calls'[c] EXCEPT !.destroyed = 0] # [calls[c] EXCEPT !.destroyed = 0]

\* a step in which call c of one of the tools ops returns, the file existing
ReturnsFrom(c, ops) ==
  /\ Returns(c)
  /\ calls'[c].args.op \in ops
  /\ calls'[c].args.filename \in DOMAIN fs

\* the lines of a file and their number
LinesOf(f) == ReadFileLines(fs[f])

TotalLinesOf(f) == Len(LinesOf(f))

\* the file the last call was about has a navigator state
Acted(op) == last.args.op = op /\ last.args.filename \in DOMAIN navigatorStates

\* the pattern occurs somewhere in the line
Occurs(atoms, line) == \E i \in 0..Len(line) : MatchAt(atoms, line, i)

AtomsOf(pattern, isRegex) ==
  IF isRegex THEN CompileRegex(pattern) ELSE EscapeLiteral(pattern)

\* the numbers of the lines in which the pattern occurs
OccurrenceLines(lines, atoms) == { n \in 1..Len(lines) : Occurs(atoms, lines[n]) }

\* C1: after any sequence of commands a file's cursorLine lies in
\* [1, totalLines], and is 1 when the file is empty.
C1_CursorInRange ==
  Quiet =>
    \A f \in DOMAIN navigatorStates :
       IF TotalLinesOf(f) = 0
       THEN navigatorStates[f].currentLine = 1
       ELSE navigatorStates[f].currentLine \in 1..TotalLinesOf(f)

\* C2: after a find completes, matches is exactly the first min(1000, M)
\* lines of the file in which the pattern occurs, in ascending order and with
\* their true line numbers and contents; none is skipped.
C2_FindCollectsEveryLine ==
  (Acted("find") /\ response.error = "none") =>
     LET f == last.args.filename
         lines == LinesOf(f)
         occ == OccurrenceLines(lines, AtomsOf(last.args.pattern, last.args.is_regex))
         matches == navigatorStates[f].searchMatches
         kept == { n \in occ : Cardinality({ m \in occ : m < n }) < 1000 }
     IN /\ Len(matches) = Min(1000, Cardinality(occ))
        /\ { matches[i].line : i \in 1..Len(matches) } = kept
        /\ \A i \in 1..Len(matches) :
             /\ matches[i].content = lines[matches[i].line]
             /\ \A j \in 1..Len(matches) : i < j => matches[i].line < matches[j].line

\* C3: a find that collects a match lands on the first collected match whose
\* line is >= the cursorLine held before the find, or on index 0 when there
\* is none; matchCursor is the landed index and cursorLine the landed line.
C3_FindLanding ==
  [][ \A c \in DOMAIN calls :
        ReturnsFrom(c, {"find"}) =>
          LET f == calls'[c].args.filename
              before == calls'[c].before.currentLine
              after == navigatorStates'[f]
              matches == after.searchMatches
              atOrAfter == { i \in 0..(Len(matches) - 1) : matches[i + 1].line >= before }
              index == IF atOrAfter = {} THEN 0
                       ELSE CHOOSE i \in atOrAfter : \A j \in atOrAfter : i <= j
          IN Len(matches) > 0 =>
               /\ after.currentMatchIndex = index
               /\ after.currentLine = matches[index + 1].line ]_vars

\* a find landed on a later match than the first, the cursor having been
\* past the first match
C3_Witness ==
  /\ Acted("find")
  /\ Len(navigatorStates[last.args.filename].searchMatches) >= 2
  /\ navigatorStates[last.args.filename].currentMatchIndex >= 1

\* C4: whenever a file's matches list is non-empty, its matchCursor is a
\* valid index into it (in every state a client that waits for each
\* response sees).
C4_MatchCursorValid ==
  Quiet =>
    \A f \in DOMAIN navigatorStates :
       Len(navigatorStates[f].searchMatches) > 0 =>
          /\ 0 <= navigatorStates[f].currentMatchIndex
          /\ navigatorStates[f].currentMatchIndex < Len(navigatorStates[f].searchMatches)

\* C5: the matches list of a file never holds more than 1000 entries.
C5_MatchesCapped ==
  \A f \in DOMAIN navigatorStates : Len(navigatorStates[f].searchMatches) <= 1000

\* a find stopped at the cap on a file with more matching lines than the cap
C5_Witness ==
  /\ Acted("find")
  /\ Len(navigatorStates[last.args.filename].searchMatches) = 1000
  /\ Cardinality(OccurrenceLines(LinesOf(last.args.filename),
                                 AtomsOf(last.args.pattern, last.args.is_regex))) > 1000

\* clamp(L, 1, totalLines), 1 for an empty file
ClampLine(L, totalLines) ==
  IF totalLines = 0 THEN 1
  ELSE IF L < 1 THEN 1
  ELSE IF L > totalLines THEN totalLines
  ELSE L

\* C6: go_to_line(L) leaves cursorLine = clamp(L, 1, totalLines); the same
\* go_to_line issued again leaves the same cursorLine and the same screen.
C6_GoToLineClamps ==
  [][ \A c \in DOMAIN calls :
        ReturnsFrom(c, {"go_to_line"}) =>
          LET f == calls'[c].args.filename
          IN /\ navigatorStates'[f].currentLine =
                  ClampLine(calls'[c].args.line, TotalLinesOf(f))
             /\ calls'[c].repeated =>
                  /\ navigatorStates'[f].currentLine = calls'[c].before.currentLine
                  /\ response' = calls'[c].priorResponse ]_vars

\* go_to_line past the end of a non-empty file, issued twice
C6_Witness ==
  /\ Acted("go_to_line")
  /\ last.repeated
  /\ TotalLinesOf(last.args.filename) >= 2
  /\ last.args.line > TotalLinesOf(last.args.filename)
  /\ navigatorStates[last.args.filename].currentLine = TotalLinesOf(last.args.filename)

\* C7: with len matches and match cursor m, next_match moves the cursor to
\* (m+1) mod len and prev_match to (m-1+len) mod len; cursorLine becomes the
\* line of that match, the response is "Match <matchCursor+1> of <len>", and
\* matches is unchanged.
C7_MatchCycling ==
  [][ \A c \in DOMAIN calls :
        ( /\ ReturnsFrom(c, {"next_match", "prev_match"})
          /\ Len(calls'[c].before.searchMatches) > 0 ) =>
          LET f == calls'[c].args.filename
              before == calls'[c].before
              after == navigatorStates'[f]
              len == Len(before.searchMatches)
              m == before.currentMatchIndex
          IN /\ after.currentMatchIndex =
                  IF calls'[c].args.op = "next_match" THEN (m + 1) % len
                                                     ELSE (m - 1 + len) % len
             /\ after.currentLine = after.searchMatches[after.currentMatchIndex + 1].line
             /\ response'.error = "none"
             /\ response'.text = Text("Match", after.currentMatchIndex + 1, len, <<>>)
             /\ after.searchMatches = before.searchMatches ]_vars

\* next_match wrapped from the last match to the first one
C7_Witness ==
  /\ Acted("next_match")
  /\ Len(navigatorStates[last.args.filename].searchMatches) >= 2
  /\ navigatorStates[last.args.filename].currentMatchIndex = 0
  /\ response.text.msg = "Match"
  /\ response.text.k = 1

\* C8: after a find that landed, len(matches) next_match calls in a row
\* bring matchCursor and cursorLine back to what the find left.
C8_CyclicClosure ==
  (/\ Quiet
   /\ landed.active
   /\ landed.run = Len(navigatorStates[landed.filename].searchMatches)) =>
     /\ navigatorStates[landed.filename].currentMatchIndex = landed.index
     /\ navigatorStates[landed.filename].currentLine = landed.line

\* the run of next_match calls after a find has gone once round two or more
\* matches
C8_Witness ==
  /\ landed.active
  /\ Len(navigatorStates[landed.filename].searchMatches) >= 2
  /\ landed.run = Len(navigatorStates[landed.filename].searchMatches)
  /\ Acted("next_match")

\* C9: the ordinal k of find's "Found match k of N" is the 1-based position
\* of the landed match (matchCursor + 1), and N is len(matches).
C9_FoundOrdinal ==
  (Acted("find") /\ response.error = "none" /\ response.text.msg = "Found match") =>
     /\ response.text.k = navigatorStates[last.args.filename].currentMatchIndex + 1
     /\ response.text.n = Len(navigatorStates[last.args.filename].searchMatches)

\* C10: page_up moves cursorLine to max(1, cursorLine - pageSize), page_down
\* to min(totalLines, cursorLine + pageSize); pageSize, matches and
\* matchCursor stay as they were.
C10_Paging ==
  [][ \A c \in DOMAIN calls :
        ReturnsFrom(c, {"page_up", "page_down"}) =>
          LET f == calls'[c].args.filename
              before == calls'[c].before
              after == navigatorStates'[f]
              up == before.currentLine - before.screenHeight
              down == before.currentLine + before.screenHeight
          IN /\ after.currentLine =
                  IF calls'[c].args.op = "page_up"
                  THEN (IF up < 1 THEN 1 ELSE up)
                  ELSE (IF down > TotalLinesOf(f) THEN TotalLinesOf(f) ELSE down)
             /\ after.screenHeight = before.screenHeight
             /\ after.searchMatches = before.searchMatches
             /\ after.currentMatchIndex = before.currentMatchIndex ]_vars

\* page_down moved the cursor one page of one line, short of the last line,
\* with a search active
C10_Witness ==
  /\ Acted("page_down")
  /\ navigatorStates[last.args.filename].screenHeight = 1
  /\ navigatorStates[last.args.filename].currentLine = 2
  /\ TotalLinesOf(last.args.filename) = 3
  /\ Len(navigatorStates[last.args.filename].searchMatches) > 0

\* the fields of a navigator state that the commands navigate by
Fields(state) ==
  <<state.currentLine, state.screenHeight, state.searchMatches,
    state.currentMatchIndex>>

\* C11: a find whose pattern occurs in no line of the file returns the text
\* "Pattern not found" and no failure, leaves matches empty and matchCursor
\* -1 whatever search was active, and leaves cursorLine where it was; a
\* next_match or prev_match issued right after it returns "No active search".
C11_PatternNotFound ==
  [][ \A c \in DOMAIN calls :
        /\ ( /\ ReturnsFrom(c, {"find"})
             /\ (calls'[c].args.is_regex => RegexValid(calls'[c].args.pattern))
             /\ OccurrenceLines(LinesOf(calls'[c].args.filename),
                                AtomsOf(calls'[c].args.pattern,
                                        calls'[c].args.is_regex)) = {} )
          => LET f == calls'[c].args.filename
             IN /\ response'.error = "none"
                /\ response'.text.msg = "Pattern not found"
                /\ navigatorStates'[f].searchMatches = <<>>
                /\ navigatorStates'[f].currentMatchIndex = -1
                /\ navigatorStates'[f].currentLine = calls'[c].before.currentLine
        /\ ( /\ ReturnsFrom(c, {"next_match", "prev_match"})
             /\ calls'[c].afterMiss )
          => response' = NoActiveSearch ]_vars

\* a find that found nothing, with the cursor away from line 1, and a
\* next_match or prev_match after it
C11_Witness ==
  /\ last.args.op \in {"next_match", "prev_match"}
  /\ last.args.filename \in DOMAIN navigatorStates
  /\ response = NoActiveSearch
  /\ navigatorStates[last.args.filename].searchPattern # <<>>
  /\ navigatorStates[last.args.filename].currentLine >= 2

\* C12: next_match and prev_match on a file whose matches list is empty,
\* or that was never searched, return "No active search" without failure
\* and leave the file's cursorLine, pageSize, matches and matchCursor as
\* they were.
C12_NoActiveSearch ==
  [][ \A c \in DOMAIN calls :
        ( /\ ReturnsFrom(c, {"next_match", "prev_match"})
          /\ Len(calls'[c].before.searchMatches) = 0 )
        => /\ response'.error = "none"
           /\ response'.text.msg = "No active search. Use 'find' first."
           /\ Fields(navigatorStates'[calls'[c].args.filename]) =
                Fields(calls'[c].before) ]_vars

\* next_match or prev_match answered "No active search" on a file whose
\* cursor and page size had been moved away from their defaults
C12_Witness ==
  /\ last.args.op \in {"next_match", "prev_match"}
  /\ last.args.filename \in DOMAIN navigatorStates
  /\ response = NoActiveSearch
  /\ navigatorStates[last.args.filename].currentLine >= 2
  /\ navigatorStates[last.args.filename].screenHeight # DEFAULT_SCREEN_HEIGHT

\* C14: a find in regex mode whose pattern does not compile fails with the
\* invalid-pattern failure before any read pass is started, and leaves
\* cursorLine where it was.
C14_InvalidPattern ==
  [][ \A c \in DOMAIN calls :
        ( /\ ReturnsFrom(c, {"find"})
          /\ calls'[c].args.is_regex
          /\ calls'[c].args.pattern = <<"(">> )
        => /\ response'.error = "InvalidParams"
           /\ response'.text.msg = "Invalid regex pattern"
           /\ response'.text.arg = calls'[c].args.pattern
           /\ passes' = <<>>
           /\ navigatorStates'[calls'[c].args.filename].currentLine =
                calls'[c].before.currentLine ]_vars

\* a find was rejected for its pattern, the cursor being away from line 1
C14_Witness ==
  /\ Acted("find")
  /\ response.error = "InvalidParams"
  /\ response.text.msg = "Invalid regex pattern"
  /\ passes = <<>>
  /\ navigatorStates[last.args.filename].currentLine >= 2

\* C13: any of the six commands issued with a filename that does not exist
\* fails with the invalid-argument failure whose message carries the
\* filename, creates no entry for that filename in the state table, and
\* changes no existing navigator state.
C13_FileNotFound ==
  [][ \A c \in DOMAIN calls :
        (Returns(c) /\ calls'[c].missing)
        => /\ response'.error = "InvalidParams"
           /\ response'.text.msg = "File not found"
           /\ response'.text.arg = <<calls'[c].args.filename>>
           /\ calls'[c].args.filename \in DOMAIN navigatorStates' <=> calls'[c].known
           /\ calls'[c].known =>
                navigatorStates'[calls'[c].args.filename] = calls'[c].before ]_vars

\* C13 for the filenames that fs.access is called for
C13_NamedFileNotFound ==
  [][ \A c \in DOMAIN calls :
        (Returns(c) /\ calls'[c].missing /\ calls'[c].args.filename # "")
        => /\ response'.error = "InvalidParams"
           /\ response'.text.msg = "File not found"
           /\ response'.text.arg = <<calls'[c].args.filename>>
           /\ calls'[c].args.filename \in DOMAIN navigatorStates' <=> calls'[c].known
           /\ calls'[c].known =>
                navigatorStates'[calls'[c].args.filename] = calls'[c].before ]_vars

\* the rows of a screen that show a line of the file
LineRows(screen) == SelectSeq(screen, LAMBDA row : row.kind = "line")

\* the screen ends with the banner of a file of totalLines lines
EndsWithBanner(screen, totalLines) ==
  /\ Len(screen) > 0
  /\ screen[Len(screen)].kind = "END OF FILE"
  /\ screen[Len(screen)].num = totalLines

HasBanner(screen) == \E i \in 1..Len(screen) : screen[i].kind = "END OF FILE"

\* C15: for a non-empty file, a page_down issued when cursorLine + pageSize
\* >= totalLines leaves cursorLine = totalLines and its screen ends with the
\* banner "[END OF FILE - totalLines lines total]"; a go_to_line(L) with
\* L > totalLines clamps to totalLines and its screen ends with the banner;
\* and a rendered screen carries the banner exactly when its last rendered
\* line number is >= totalLines.
C15_EndOfFile ==
  [][ \A c \in DOMAIN calls :
        ( /\ ReturnsFrom(c, Tools)
          /\ ~calls'[c].disturbed
          /\ fault[calls'[c].args.filename] = "none"
          /\ TotalLinesOf(calls'[c].args.filename) >= 1 )
        => LET f == calls'[c].args.filename
               totalLines == TotalLinesOf(f)
               before == calls'[c].before
               after == navigatorStates'[f]
               shown == LineRows(response'.screen)
           IN /\ ( /\ calls'[c].args.op = "page_down"
                   /\ before.currentLine + before.screenHeight >= totalLines )
                 => /\ after.currentLine = totalLines
                    /\ EndsWithBanner(response'.screen, totalLines)
              /\ (calls'[c].args.op = "go_to_line" /\ calls'[c].args.line > totalLines)
                 => /\ after.currentLine = totalLines
                    /\ EndsWithBanner(response'.screen, totalLines)
              /\ Len(shown) > 0
                 => (HasBanner(response'.screen) <=>
                       shown[Len(shown)].num >= totalLines) ]_vars

\* a call ended by a failing read pass
ReadFailed(ps) ==
  Len(ps) > 0 /\ ps[Len(ps)].exit \in {"open failed", "read failed"}

\* C18: if a read pass of a command fails, the file's cursorLine, pageSize,
\* matches and matchCursor are what they were before the command, except
\* that a find has discarded the previous search.
C18_FailedReadKeepsState ==
  [][ \A c \in DOMAIN calls :
        (Returns(c) /\ ReadFailed(passes'))
        => LET f == calls'[c].args.filename
               before == calls'[c].before
               after == navigatorStates'[f]
           IN IF calls'[c].args.op = "find"
              THEN /\ after.currentLine = before.currentLine
                   /\ after.screenHeight = before.screenHeight
                   /\ after.searchMatches = <<>>
                   /\ after.currentMatchIndex = -1
              ELSE Fields(after) = Fields(before) ]_vars

\* the handle of a read pass was closed when the pass was left
Released(pass) == ~pass.opened \/ pass.released

\* C19: every file handle opened by a read pass is released by the time the
\* pass ends, whether the pass read to the end, was left early by its
\* consumer, or failed; no command finishes with a handle it opened still
\* open.
C19_HandlesReleased ==
  /\ \A i \in 1..Len(passes) : Released(passes[i])
  /\ \A c \in DOMAIN calls :
       /\ \A i \in 1..Len(calls[c].passes) : Released(calls[c].passes[i])
       /\ calls[c].pc = "done" => calls[c].destroyed = 0

\* C19 for the passes that read to the end of the file, whose stream fails
\* or whose fs.open is rejected: the handle, if one was opened, is closed
\* when the pass is left; a handle still open is that of a stream which a
\* break destroyed
C19_ReleasedUnlessBreak ==
  /\ \A i \in 1..Len(passes) : passes[i].exit # "break" => Released(passes[i])
  /\ \A c \in DOMAIN calls :
       \A i \in 1..Len(calls[c].passes) :
          calls[c].passes[i].exit # "break" => Released(calls[c].passes[i])

\* C16: the navigator states of distinct paths do not interact: a command
\* on one path changes the state of no other path; a path's state is
\* created on the first reference to the path, with cursorLine 1, pageSize
\* 30, no matches and matchCursor -1, and is never removed.  (Checked on
\* every step of a call; the entry is created by the step that runs
\* getNavigatorState.)
C16_PathsIndependent ==
  [][ \A c \in DOMAIN calls :
        calls'[c] # calls[c]
        => LET f == calls'[c].args.filename
               created == DOMAIN navigatorStates' \ DOMAIN navigatorStates
           IN /\ \A g \in DOMAIN navigatorStates :
                   /\ g \in DOMAIN navigatorStates'
                   /\ g # f => navigatorStates'[g] = navigatorStates[g]
              /\ created \subseteq {f}
              /\ (Returns(c) /\ f \in DOMAIN fs) => f \in DOMAIN navigatorStates'
              /\ f \in created
                 => Fields(navigatorStates'[f]) = <<1, 30, <<>>, -1>> ]_vars

\* both paths have a state, the one of "f" moved away from its defaults, and
\* the last call searched "g"
C16_Witness ==
  /\ DOMAIN navigatorStates = {"f", "g"}
  /\ navigatorStates["f"].currentLine >= 2
  /\ navigatorStates["f"].screenHeight = 1
  /\ last.args.filename = "g"
  /\ navigatorStates["g"].searchMatches # <<>>
  /\ navigatorStates["g"].screenHeight = 30

\* out is the segments of content between newlines, except that a newline
\* at the end of content starts no further segment
IsSplitOf(out, content) ==
  /\ \A i \in 1..Len(out) : \A j \in 1..Len(out[i]) : out[i][j] # "\n"
  /\ \/ content = Join(out) /\ (out = <<>> \/ out[Len(out)] # <<>>)
     \/ out # <<>> /\ content = Join(out) \o <<"\n">>

\* C20: for any content and any division of it into chunks, readFileLines
\* yields exactly the segments between the newlines of the content, in
\* order, a non-empty last segment included and no extra empty line for a
\* newline at the end; the lines yielded, and so getTotalLines, do not
\* depend on the chunk boundaries.
C20_ChunkIndependent ==
  (reader # <<>> /\ reader.done) =>
     /\ IsSplitOf(reader.out, fs["f"])
     /\ reader.out = ReadFileChunks(reader.chunks)
     /\ reader.out = ReadFileLines(fs["f"])
     /\ GetTotalLines(reader.out) = TotalLinesOf("f")

\* a pass has ended over three chunks or more, the first of which ends in
\* the middle of a line, and the content ends with a newline
C20_Witness ==
  /\ reader # <<>>
  /\ reader.done
  /\ Len(reader.chunks) >= 3
  /\ reader.chunks[1][Len(reader.chunks[1])] # "\n"
  /\ fs["f"][Len(fs["f"])] = "\n"
  /\ Len(reader.out) >= 2

\* one command run alone, from start to end, on a navigator state
RunOn(state, args) ==
  LET f == args.filename
      src == Source(f)
  IN CASE args.op = "go_to_line" ->
            GoToLineOn(state, f, src, args.line, args.screen_height)
       [] args.op = "find" -> FindOn(state, f, src, args.pattern, args.is_regex)
       [] args.op = "next_match" -> NextMatchOn(state, f, src)
       [] args.op = "prev_match" -> PrevMatchOn(state, f, src)
       [] args.op = "page_up" -> PageUpOn(state, f, src)
       [] args.op = "page_down" -> PageDownOn(state, f, src)

\* command a and then command b on a file not referenced before
Serial(a, b) ==
  LET r1 == RunOn(FreshState(a.filename), a)
      r2 == RunOn(r1.state, b)
  IN [state |-> r2.state, first |-> r1.response, second |-> r2.response]

\* C17: commands are atomic with respect to one another: for two commands
\* issued against the same file, the second possibly while the first is
\* suspended at an await, the final navigator state and both responses are
\* those of running the two one after the other in some order.
C17_Atomic ==
  (DOMAIN calls = CallIds /\ calls[1].pc = "done" /\ calls[2].pc = "done") =>
     \/ LET s == Serial(calls[1].args, calls[2].args)
        IN /\ navigatorStates["f"] = s.state
           /\ calls[1].response = s.first
           /\ calls[2].response = s.second
     \/ LET s == Serial(calls[2].args, calls[1].args)
        IN /\ navigatorStates["f"] = s.state
           /\ calls[2].response = s.first
           /\ calls[1].response = s.second

\* C17 for two commands of which the second is issued after the first has
\* returned
C17_OneAtATime ==
  ( /\ DOMAIN calls = CallIds
    /\ calls[1].pc = "done" /\ calls[2].pc = "done"
    /\ ~calls[1].overlapped /\ ~calls[2].overlapped ) =>
     \/ LET s == Serial(calls[1].args, calls[2].args)
        IN /\ navigatorStates["f"] = s.state
           /\ calls[1].response = s.first
           /\ calls[2].response = s.second
     \/ LET s == Serial(calls[2].args, calls[1].args)
        IN /\ navigatorStates["f"] = s.state
           /\ calls[2].response = s.first
           /\ calls[1].response = s.second

\* A call during which no other call ran and the file system did not change
\* leaves the state and the response of its case run from start to end, and
\* has left its read passes in the same ways.
CallAloneIsRunOn ==
  [][ \A c \in DOMAIN calls :
        ( /\ Returns(c)
          /\ ~calls'[c].overlapped
          /\ ~calls'[c].disturbed
          /\ calls'[c].args.filename # "" => ~calls'[c].missing )
        => LET r == RunOn(calls'[c].before, calls'[c].args)
           IN /\ navigatorStates'[calls'[c].args.filename] = r.state
              /\ response' = r.response
              /\ [i \in 1..Len(passes') |-> passes'[i].exit] = r.passes ]_vars

\* C21: getLines(path, startLine, count) with startLine >= 1 and count >= 1
\* returns exactly the lines whose position p satisfies startLine <= p <
\* startLine + count and p <= totalLines, in ascending order, each with
\* lineNumber = p, and takes no line from the stream beyond position
\* startLine + count.
C21_Window ==
  (reader # <<>> /\ reader.done) =>
     LET stream == reader.stream
         window == { p \in 1..Len(stream) :
                       reader.startLine <= p /\ p < reader.startLine + reader.count }
     IN /\ Len(reader.lines) = Cardinality(window)
        /\ \A i \in 1..Len(reader.lines) :
             /\ reader.lines[i].lineNumber = reader.startLine + i - 1
             /\ reader.lines[i].content = stream[reader.startLine + i - 1]
        /\ reader.pos - 1 <= reader.startLine + reader.count
        /\ reader.lines = GetLines(stream, reader.startLine, reader.count)

\* getLines left its loop by the break, having returned a full window that
\* starts after the first line
C21_Witness ==
  /\ reader # <<>>
  /\ reader.done
  /\ reader.brk
  /\ reader.startLine >= 2
  /\ Len(reader.lines) = reader.count

FillerRows(screen) == SelectSeq(screen, LAMBDA row : row.kind = "filler")

\* C22: when a rendered window reaches end-of-file (its last line number is
\* >= totalLines) and has fewer entries than the file's pageSize, the screen
\* holds filler rows so that line rows plus filler rows equal that pageSize,
\* followed by the end-of-file banner.
C22_FillersToPageSize ==
  [][ \A c \in DOMAIN calls :
        LET f == calls'[c].args.filename
            shown == LineRows(response'.screen)
        IN ( /\ ReturnsFrom(c, Tools)
             /\ ~calls'[c].disturbed
             /\ response'.error = "none"
             /\ Len(shown) > 0
             /\ shown[Len(shown)].num >= TotalLinesOf(f)
             /\ Len(shown) < navigatorStates'[f].screenHeight )
           => /\ Len(shown) + Len(FillerRows(response'.screen))
                   = navigatorStates'[f].screenHeight
              /\ EndsWithBanner(response'.screen, TotalLinesOf(f)) ]_vars

\* the pageSize of a file: that of its state, 30 while it has none
PageSizeOf(states, f) ==
  IF f \in DOMAIN states THEN states[f].screenHeight ELSE DEFAULT_SCREEN_HEIGHT

\* pageSize changes only in a go_to_line that supplies a screen_height
PageSizeSetByGoToLine ==
  \A f \in DOMAIN navigatorStates' :
     PageSizeOf(navigatorStates', f) # PageSizeOf(navigatorStates, f)
       => \E c \in DOMAIN calls :
             /\ calls'[c] # calls[c]
             /\ calls[c].args.op = "go_to_line"
             /\ calls[c].args.filename = f
             /\ calls[c].args.screen_height # <<>>

\* C23: in every reachable state each file's pageSize is an integer >= 1:
\* it starts at 30, is changed only by go_to_line when a screen_height is
\* supplied, and no supplied screen_height (0 or a negative number
\* included) makes it smaller than 1.
C23_PageSizePositive ==
  [][ /\ PageSizeSetByGoToLine
      /\ \A f \in DOMAIN navigatorStates' :
           /\ navigatorStates'[f].screenHeight \in Int
           /\ navigatorStates'[f].screenHeight >= 1 ]_vars

\* C24: on a non-empty file, the screen returned by every successful
\* go_to_line, page_up, page_down, find (with a match), next_match and
\* prev_match shows a contiguous run of lines whose first line number is the
\* cursorLine left by that command and whose length is
\* min(pageSize, totalLines - cursorLine + 1).
C24_ScreenAtCursor ==
  [][ \A c \in DOMAIN calls :
        ( /\ ReturnsFrom(c, Tools)
          /\ ~calls'[c].disturbed
          /\ TotalLinesOf(calls'[c].args.filename) >= 1
          /\ response'.error = "none"
          /\ response'.screen # <<>> )
        => LET f == calls'[c].args.filename
               state == navigatorStates'[f]
               shown == LineRows(response'.screen)
           IN /\ Len(shown) = Min(state.screenHeight,
                                  TotalLinesOf(f) - state.currentLine + 1)
              /\ \A i \in 1..Len(shown) :
                   /\ shown[i].num = state.currentLine + i - 1
                   /\ shown[i].content = LinesOf(f)[state.currentLine + i - 1] ]_vars

====
